---- MODULE Spec2Model ----
(***************************************************************************)
(* Rule engine of the quantum spacetime shogi game (python_qss/engine.py): *)
(* class Game with stage, clear_staged and commit_turn, the per-world move *)
(* executor, the move legality resolver and the candidate collapse pass.   *)
(*                                                                         *)
(* Piece types and messages are Japanese strings in the source; they are   *)
(* written here in ASCII, one name per source string:                      *)
(*   pawn = fu, lance = kyo, knight = kei, silver = gin, gold = kin,       *)
(*   rook = hi, bishop = kaku, king = ou.                                  *)
(***************************************************************************)
EXTENDS Integers, Sequences, FiniteSets, TLC

(***************************************************************************)
(* Bounds of the model.                                                    *)
(***************************************************************************)
\* commit_turn is not called once some world's history has this many entries
MaxHistory == 3

\* the same cap in the long game
LongMaxHistory == 48

(***************************************************************************)
(* Player (engine.py 8-16).                                                *)
(***************************************************************************)
BLACK == "black"
WHITE == "white"
Player == {BLACK, WHITE}

oppositeAlwaysBlack(p) == BLACK

opposite(p) == IF p = BLACK THEN WHITE ELSE BLACK

forwardBlackOnly(p) == -1

forward(p) == IF p = BLACK THEN -1 ELSE 1

(***************************************************************************)
(* Piece types and limits (engine.py 19-20).  PIECE_LIMIT_ORDER is the     *)
(* iteration order of the PIECE_LIMIT dict.                                *)
(***************************************************************************)
PIECE_TYPES == <<"pawn", "lance", "knight", "silver", "gold", "rook", "bishop", "king">>

PieceTypeSet == {PIECE_TYPES[i] : i \in 1..Len(PIECE_TYPES)}

PIECE_LIMIT_ORDER == <<"king", "rook", "bishop", "gold", "silver", "knight", "lance", "pawn">>

PIECE_LIMIT == [k \in PieceTypeSet |->
                  CASE k = "king" -> 1
                    [] k = "rook" -> 1
                    [] k = "bishop" -> 1
                    [] k = "gold" -> 2
                    [] k = "silver" -> 2
                    [] k = "knight" -> 2
                    [] k = "lance" -> 2
                    [] k = "pawn" -> 9]

(***************************************************************************)
(* Data classes (engine.py 23-65).  None is modelled by a record of the    *)
(* same shape: NoPiece for an empty square, NoPlan for staged = None.      *)
(***************************************************************************)
Piece(id, owner, candidates, promoted) ==
    [id |-> id, owner |-> owner, candidates |-> candidates, promoted |-> promoted]

NoPiece == [id |-> 0, owner |-> "none", candidates |-> {}, promoted |-> FALSE]

Snapshot(board, hands) == [board |-> board, hands |-> hands]

MovePlan(mode, from_xy, to_xy, hand_index, promote, delta_w, delta_t) ==
    [mode |-> mode, from_xy |-> from_xy, to_xy |-> to_xy, hand_index |-> hand_index,
     promote |-> promote, delta_w |-> delta_w, delta_t |-> delta_t]

NoPlan == [mode |-> "none", from_xy |-> <<0, 0>>, to_xy |-> <<0, 0>>, hand_index |-> 0,
           promote |-> FALSE, delta_w |-> 0, delta_t |-> 0]

WorldLine(w, history) == [w |-> w, history |-> history, staged |-> NoPlan, lost |-> FALSE]

Settings(max_worlds, max_time_jump, hand_mode, time_direction_policy) ==
    [max_worlds |-> max_worlds, max_time_jump |-> max_time_jump, hand_mode |-> hand_mode,
     check_attack_mode |-> "possible", time_direction_policy |-> time_direction_policy]

\* range(9)
Range9 == 0..8

Abs(v) == IF v < 0 THEN -v ELSE v

Max2(a, b) == IF a >= b THEN a ELSE b

\* list.pop(i) leaves the list without its element at 0-based index i
ListWithout(s, i) == [k \in 1..(Len(s) - 1) |-> IF k <= i THEN s[k] ELSE s[k + 1]]

\* board with the square board[y][x] assigned
SetSquare(board, x, y, p) == [board EXCEPT ![y][x] = p]

(***************************************************************************)
(* Game._initial_snapshot and Game._new_piece (engine.py 77-90): ids are   *)
(* handed out from first_id in row-major order, white rows 0-2 first, then *)
(* black rows 6-8; every piece carries all eight candidates.               *)
(***************************************************************************)
_new_piece(next_id, owner) == Piece(next_id, owner, PieceTypeSet, FALSE)

_initial_snapshot_back_rank(first_id) ==
    Snapshot([y \in Range9 |-> [x \in Range9 |->
                 IF y < 1 THEN _new_piece(first_id + 9 * y + x, WHITE)
                 ELSE IF y >= 8 THEN _new_piece(first_id + 27 + 9 * (y - 6) + x, BLACK)
                 ELSE NoPiece]],
             [pl \in Player |-> <<>>])

_initial_snapshot(first_id) ==
    Snapshot([y \in Range9 |-> [x \in Range9 |->
                 IF y < 3 THEN _new_piece(first_id + 9 * y + x, WHITE)
                 ELSE IF y >= 6 THEN _new_piece(first_id + 27 + 9 * (y - 6) + x, BLACK)
                 ELSE NoPiece]],
             [pl \in Player |-> <<>>])

(***************************************************************************)
(* Game._clone_snapshot (engine.py 177-188): every piece is rebuilt from   *)
(* its four fields.                                                        *)
(***************************************************************************)
_clone_piece(p) == Piece(p.id, p.owner, {c \in p.candidates : TRUE}, p.promoted)

_clone_snapshot(s) ==
    Snapshot([y \in Range9 |-> [x \in Range9 |->
                 IF s.board[y][x] # NoPiece THEN _clone_piece(s.board[y][x]) ELSE NoPiece]],
             [pl \in Player |-> [i \in 1..Len(s.hands[pl]) |-> _clone_piece(s.hands[pl][i])]])

(***************************************************************************)
(* Game._is_linear_clear (engine.py 307-320).                              *)
(***************************************************************************)
_is_linear_clear(dx, dy, fx, fy, src) ==
    LET steps == Max2(Abs(dx), Abs(dy))
        sx == IF dx = 0 THEN 0 ELSE IF dx > 0 THEN 1 ELSE -1
        sy == IF dy = 0 THEN 0 ELSE IF dy > 0 THEN 1 ELSE -1
    IN  IF steps <= 1 THEN TRUE
        ELSE \A i \in 1..(steps - 1) :
                LET x == fx + sx * i
                    y == fy + sy * i
                IN  /\ x \in Range9 /\ y \in Range9
                    /\ src.board[y][x] = NoPiece

(***************************************************************************)
(* Game._type_can_move (engine.py 273-305).                                *)
(***************************************************************************)
_type_can_move(t, owner, dx, dy, dw, dt, fx, fy, src, settings) ==
    LET f == forward(owner)
        d == <<dx, dy, dw, dt>>
        nz == {i \in 1..4 : d[i] # 0}
    IN  IF settings.time_direction_policy = "past_only" /\ dt > 0 THEN FALSE
        ELSE IF t \in {"pawn", "gold", "silver", "king"} /\ Abs(dw) >= 2 THEN FALSE
        ELSE IF t = "king" THEN
            Max2(Max2(Abs(dx), Abs(dy)), Max2(Abs(dw), Abs(dt))) = 1
        ELSE IF t = "pawn" THEN
            d \in {<<0, f, 0, 0>>, <<0, 0, f, 0>>, <<0, 0, 0, -1>>}
        ELSE IF t = "gold" THEN
            d \in {<<0, f, 0, 0>>, <<1, 0, 0, 0>>, <<-1, 0, 0, 0>>, <<0, -f, 0, 0>>,
                   <<1, f, 0, 0>>, <<-1, f, 0, 0>>, <<0, 0, f, 0>>, <<0, 0, 0, -1>>}
        ELSE IF t = "silver" THEN
            d \in {<<0, f, 0, 0>>, <<1, f, 0, 0>>, <<-1, f, 0, 0>>, <<1, -f, 0, 0>>,
                   <<-1, -f, 0, 0>>, <<0, 0, f, 0>>, <<0, 0, 0, -1>>}
        ELSE IF t = "knight" THEN
            d \in {<<1, 2 * f, 0, 0>>, <<-1, 2 * f, 0, 0>>, <<1, 0, 2 * f, 0>>,
                   <<-1, 0, 2 * f, 0>>, <<1, 0, 0, -2>>, <<-1, 0, 0, -2>>}
        ELSE IF t = "lance" THEN
            IF ~_is_linear_clear(dx, dy, fx, fy, src) THEN FALSE
            ELSE \/ (dx = 0 /\ dw = 0 /\ dt = 0 /\ ((dy > 0) <=> (f > 0)))
                 \/ (dx = 0 /\ dy = 0 /\ dt = 0 /\ ((dw > 0) <=> (f > 0)))
        ELSE IF t = "rook" THEN
            IF ~_is_linear_clear(dx, dy, fx, fy, src) THEN FALSE
            ELSE Cardinality({i \in 1..4 : d[i] = 0}) = 3
        ELSE IF t = "bishop" THEN
            IF Cardinality(nz) < 2 \/ ~(\A i, j \in nz : Abs(d[i]) = Abs(d[j])) THEN FALSE
            ELSE _is_linear_clear(dx, dy, fx, fy, src)
        ELSE FALSE

(***************************************************************************)
(* Game._double_pawn and Game._filter_drop_candidates (engine.py 249-271). *)
(***************************************************************************)
_double_pawn_rank(s, file_x, owner) ==
    \E y \in Range9 :
        LET p == s.board[file_x][y]
        IN  p # NoPiece /\ p.owner = owner /\ p.candidates = {"pawn"}

_double_pawn(s, file_x, owner) ==
    \E y \in Range9 :
        LET p == s.board[y][file_x]
        IN  p # NoPiece /\ p.owner = owner /\ p.candidates = {"pawn"}

_filter_drop_candidates(cands, x, y, target, turn) ==
    {c \in cands :
        /\ ~(c = "pawn" /\ _double_pawn(target, x, turn))
        /\ ~(c = "pawn" /\ ((turn = BLACK /\ y = 0) \/ (turn = WHITE /\ y = 8)))
        /\ ~(c = "lance" /\ ((turn = BLACK /\ y = 0) \/ (turn = WHITE /\ y = 8)))
        /\ ~(c = "knight" /\ ((turn = BLACK /\ y <= 1) \/ (turn = WHITE /\ y >= 7)))}

(***************************************************************************)
(* Game.king_candidates (engine.py 322-329), as the set of its squares.    *)
(***************************************************************************)
king_candidates(s, owner) ==
    {xy \in Range9 \X Range9 :
        LET p == s.board[xy[2]][xy[1]]
        IN  p # NoPiece /\ p.owner = owner /\ "king" \in p.candidates}

(***************************************************************************)
(* Error texts of _apply_one_world and _execute and messages of            *)
(* commit_turn, one ASCII name per source string.                          *)
(***************************************************************************)
ErrOffBoard == "off_board"                      \* engine.py 200
ErrDropOccupied == "drop_target_occupied"       \* engine.py 204
ErrHandIndex == "bad_hand_index"                \* engine.py 207
ErrDropForbidden == "drop_forbidden"            \* engine.py 212
ErrOriginOffBoard == "origin_off_board"         \* engine.py 221
ErrOriginEmpty == "origin_empty"                \* engine.py 224
ErrNotOwn == "not_own_piece"                    \* engine.py 226
ErrOwnAtDestination == "own_piece_at_destination" \* engine.py 229
ErrNoCandidate == "no_candidate"                \* engine.py 234
ErrFuture == "future_move"                      \* engine.py 144
ErrTimeJump == "time_jump_too_large"            \* engine.py 146
ErrHistoryRange == "history_out_of_range"       \* engine.py 150
ErrMaxWorlds == "MAX_WORLDS"                    \* engine.py 156
ErrWorldCollision == "world_collision"          \* engine.py 158

MsgInitial == <<>>                              \* engine.py 72
MsgMissing == <<"missing_staged_input">>        \* engine.py 106
MsgIllegal(err) == <<"illegal", err>>           \* engine.py 114
MsgGlobalShort(k) == <<"global_hand_short", k>> \* engine.py 125
MsgCommitted == <<"committed">>                 \* engine.py 136

(***************************************************************************)
(* Game._execute (engine.py 190-247).  src_present and target are two      *)
(* separate snapshots at both call sites.  The result carries the two      *)
(* snapshots and global_use as the call leaves them.                       *)
(***************************************************************************)
ExecResult(ok, err, src_present, target, global_use) ==
    [ok |-> ok, err |-> err, src_present |-> src_present, target |-> target,
     global_use |-> global_use]

_execute_drop(src_present, target, plan, global_use, turn, settings) ==
    LET tx == plan.to_xy[1]
        ty == plan.to_xy[2]
        hand == src_present.hands[turn]
    IN  IF target.board[ty][tx] # NoPiece
        THEN ExecResult(FALSE, ErrDropOccupied, src_present, target, global_use)
        ELSE IF plan.hand_index < 0 \/ plan.hand_index >= Len(hand)
        THEN ExecResult(FALSE, ErrHandIndex, src_present, target, global_use)
        ELSE
            LET popped == hand[plan.hand_index + 1]
                src2 == [src_present EXCEPT !.hands[turn] = ListWithout(hand, plan.hand_index)]
                p == Piece(popped.id, turn,
                           _filter_drop_candidates(popped.candidates, tx, ty, target, turn),
                           popped.promoted)
                use2 == IF settings.hand_mode = "global"
                        THEN [c \in PieceTypeSet |->
                                 IF c \in p.candidates THEN global_use[c] + 1 ELSE global_use[c]]
                        ELSE global_use
            IN  IF p.candidates = {}
                THEN ExecResult(FALSE, ErrDropForbidden, src2, target, global_use)
                ELSE ExecResult(TRUE, "", src2,
                                [target EXCEPT !.board = SetSquare(target.board, tx, ty, p)],
                                use2)

\* line 237: the piece that arrives
Moved(piece, filtered, plan) == Piece(piece.id, piece.owner, filtered, plan.promote)

\* lines 239-240: the piece that goes to the capturer's hand
Captured(dst) == Piece(dst.id, dst.owner, dst.candidates \ {"king"}, dst.promoted)

\* lines 244-245: a move that does not branch empties its origin in target too
ClearOriginAlways(tgt, branching, fx, fy) ==
    [tgt EXCEPT !.board = SetSquare(tgt.board, fx, fy, NoPiece)]

ClearOrigin(tgt, branching, fx, fy) ==
    IF ~branching THEN [tgt EXCEPT !.board = SetSquare(tgt.board, fx, fy, NoPiece)] ELSE tgt

\* line 228: the destination holds a piece of the player to move
OpponentAtDestination(dst, turn) == dst # NoPiece /\ dst.owner # turn

OwnAtDestination(dst, turn) == dst # NoPiece /\ dst.owner = turn

_execute_move(src_present, target, plan, branching, global_use, turn, settings) ==
    LET tx == plan.to_xy[1]
        ty == plan.to_xy[2]
        fx == plan.from_xy[1]
        fy == plan.from_xy[2]
    IN  IF ~(fx \in Range9 /\ fy \in Range9)
        THEN ExecResult(FALSE, ErrOriginOffBoard, src_present, target, global_use)
        ELSE
        LET piece == src_present.board[fy][fx]
            dst == target.board[ty][tx]
            dx == tx - fx
            dy == ty - fy
            filtered == {c \in piece.candidates :
                            _type_can_move(c, piece.owner, dx, dy, plan.delta_w, plan.delta_t,
                                           fx, fy, src_present, settings)}
            moved == Moved(piece, filtered, plan)
            captured == Captured(dst)
            src2 == [src_present EXCEPT !.board = SetSquare(src_present.board, fx, fy, NoPiece)]
            tgtA == IF dst # NoPiece
                    THEN [target EXCEPT !.hands[turn] = Append(target.hands[turn], captured),
                                        !.board = SetSquare(target.board, tx, ty, NoPiece)]
                    ELSE target
            tgtB == ClearOrigin(tgtA, branching, fx, fy)
            tgtC == [tgtB EXCEPT !.board = SetSquare(tgtB.board, tx, ty, moved)]
        IN  IF piece = NoPiece
            THEN ExecResult(FALSE, ErrOriginEmpty, src_present, target, global_use)
            ELSE IF piece.owner # turn
            THEN ExecResult(FALSE, ErrNotOwn, src_present, target, global_use)
            ELSE IF OwnAtDestination(dst, turn)
            THEN ExecResult(FALSE, ErrOwnAtDestination, src_present, target, global_use)
            ELSE IF filtered = {}
            THEN ExecResult(FALSE, ErrNoCandidate, src_present, target, global_use)
            ELSE ExecResult(TRUE, "", src2, tgtC, global_use)

_execute(src_present, target, plan, branching, global_use, turn, settings) ==
    IF ~(plan.to_xy[1] \in Range9 /\ plan.to_xy[2] \in Range9)
    THEN ExecResult(FALSE, ErrOffBoard, src_present, target, global_use)
    ELSE IF plan.mode = "drop"
    THEN _execute_drop(src_present, target, plan, global_use, turn, settings)
    ELSE _execute_move(src_present, target, plan, branching, global_use, turn, settings)

(***************************************************************************)
(* Game._apply_one_world (engine.py 139-175) on the worlds dict.  The      *)
(* result carries the dict and global_use as the call leaves them.         *)
(***************************************************************************)
ApplyResult(ok, err, ws, global_use) ==
    [ok |-> ok, err |-> err, worlds |-> ws, global_use |-> global_use]

\* line 155: the world count is at max_worlds
WorldLimitOffByOne(ws, settings) == Cardinality(DOMAIN ws) > settings.max_worlds

WorldLimitReached(ws, settings) == Cardinality(DOMAIN ws) >= settings.max_worlds

\* lines 165 and 174: wl.history.append(snapshot)
OverwritePresent(history, s) == [history EXCEPT ![Len(history)] = s]

AppendSnapshot(history, s) == Append(history, s)

\* the dict with key w_new set to a fresh WorldLine
WithWorld(ws, w_new, wl) ==
    [k \in (DOMAIN ws) \cup {w_new} |-> IF k = w_new THEN wl ELSE ws[k]]

\* line 145
TimeJumpForwardOnly(plan, settings) == plan.delta_t > settings.max_time_jump

TimeJumpTooLarge(plan, settings) == Abs(plan.delta_t) > settings.max_time_jump

\* line 157: the ids that were worlds when the commit began, which are the
\* ones with a staged plan
WorldCollisionAtStart(ws, w_new) == w_new \in {v \in DOMAIN ws : ws[v].staged # NoPlan}

\* line 157: w_new in self.worlds, the dict as the loop has left it so far
WorldCollision(ws, w_new) == w_new \in DOMAIN ws

\* line 152
BranchingWorldOnly(plan) == plan.delta_w # 0

IsBranching(plan) == plan.delta_w # 0 \/ plan.delta_t < 0

_apply_one_world(ws, w, plan, global_use, turn, settings) ==
    LET wl == ws[w]
        present_t == Len(wl.history) - 1
        t_base == present_t + plan.delta_t
        branching == IsBranching(plan)
        w_new == w + plan.delta_w
    IN  IF settings.time_direction_policy = "past_only" /\ plan.delta_t > 0
        THEN ApplyResult(FALSE, ErrFuture, ws, global_use)
        ELSE IF TimeJumpTooLarge(plan, settings)
        THEN ApplyResult(FALSE, ErrTimeJump, ws, global_use)
        ELSE IF t_base < 0 \/ t_base >= Len(wl.history)
        THEN ApplyResult(FALSE, ErrHistoryRange, ws, global_use)
        ELSE IF branching
        THEN
            IF WorldLimitReached(ws, settings)
            THEN ApplyResult(FALSE, ErrMaxWorlds, ws, global_use)
            ELSE IF WorldCollision(ws, w_new)
            THEN ApplyResult(FALSE, ErrWorldCollision, ws, global_use)
            ELSE
                LET from_present == _clone_snapshot(wl.history[Len(wl.history)])
                    target == _clone_snapshot(wl.history[t_base + 1])
                    Branched(r) ==
                        IF ~r.ok
                        THEN ApplyResult(FALSE, r.err, ws, global_use)
                        ELSE ApplyResult(TRUE, "",
                                WithWorld([ws EXCEPT ![w].history =
                                                         AppendSnapshot(@, r.src_present)],
                                          w_new, WorldLine(w_new, <<r.target>>)),
                                r.global_use)
                IN  Branched(_execute(from_present, target, plan, TRUE, global_use,
                                      turn, settings))
        ELSE
            LET Stepped(cur, r) ==
                    IF ~r.ok
                    THEN ApplyResult(FALSE, r.err, ws, global_use)
                    ELSE ApplyResult(TRUE, "",
                                     [ws EXCEPT ![w].history = AppendSnapshot(@, r.src_present)],
                                     r.global_use)
                Execute(cur, dummy) ==
                    Stepped(cur, _execute(cur, dummy, plan, FALSE, global_use, turn, settings))
                Cloned(cur) == Execute(cur, _clone_snapshot(cur))
            IN  Cloned(_clone_snapshot(wl.history[Len(wl.history)]))

(***************************************************************************)
(* Game._collapse_by_count (engine.py 331-357).  CollapsePair is the body  *)
(* of the two for loops for one (pl, kind); CollapsePass is one run of the *)
(* while body, players in the order BLACK, WHITE and kinds in the order of *)
(* PIECE_LIMIT; the while loop repeats the pass until nothing changes.     *)
(***************************************************************************)
CollapseIds(s, pl, kind) ==
    {s.board[y][x].id : <<x, y>> \in
        {xy \in Range9 \X Range9 :
            LET p == s.board[xy[2]][xy[1]]
            IN  p # NoPiece /\ p.owner = pl /\ kind \in p.candidates}}
    \cup {s.hands[pl][i].id : i \in {j \in 1..Len(s.hands[pl]) : kind \in s.hands[pl][j].candidates}}

\* len(ids): the pieces counted, each one once
CollapseCount(s, pl, kind) ==
    Cardinality({xy \in Range9 \X Range9 :
                    LET p == s.board[xy[2]][xy[1]]
                    IN  p # NoPiece /\ p.owner = pl /\ kind \in p.candidates})
    + Cardinality({j \in 1..Len(s.hands[pl]) : kind \in s.hands[pl][j].candidates})

CollapsePair(s, pl, kind) ==
    IF CollapseCount(s, pl, kind) = PIECE_LIMIT[kind]
    THEN LET idset == CollapseIds(s, pl, kind)
         IN  Snapshot(
                [y \in Range9 |-> [x \in Range9 |->
                    LET p == s.board[y][x]
                    IN  IF p # NoPiece /\ p.owner = pl /\ p.id \in idset /\ p.candidates # {kind}
                        THEN [p EXCEPT !.candidates = {kind}]
                        ELSE p]],
                [q \in Player |->
                    IF q = pl
                    THEN [i \in 1..Len(s.hands[pl]) |->
                            LET p == s.hands[pl][i]
                            IN  IF p.id \in idset /\ p.candidates # {kind}
                                THEN [p EXCEPT !.candidates = {kind}]
                                ELSE p]
                    ELSE s.hands[q]])
    ELSE s

CollapseOrder == <<BLACK, WHITE>>

RECURSIVE CollapsePass(_, _)
\* the for loops of one pass from the n-th (pl, kind) pair on, n = 0..15
CollapsePass(s, n) ==
    IF n >= Len(CollapseOrder) * Len(PIECE_LIMIT_ORDER) THEN s
    ELSE LET after == CollapsePair(s, CollapseOrder[(n \div Len(PIECE_LIMIT_ORDER)) + 1],
                                      PIECE_LIMIT_ORDER[(n % Len(PIECE_LIMIT_ORDER)) + 1])
         IN  \* the pair is worked through before the next one is looked at
             IF after = s THEN CollapsePass(s, n + 1) ELSE CollapsePass(after, n + 1)

\* the while body run once, whatever it changed
_collapse_single_pass(s) == CollapsePass(s, 0)

RECURSIVE _collapse_by_count(_)
_collapse_by_count(s) ==
    LET Again(after) == IF after = s THEN s ELSE _collapse_by_count(after)
    IN  Again(CollapsePass(s, 0))

(***************************************************************************)
(* State of a Game (engine.py 69-75) and of its caller: op and ret are the *)
(* name and the return value of the most recent call.                      *)
(***************************************************************************)
VARIABLES settings, turn, message, _next_id, worlds, op, ret

vars == <<settings, turn, message, _next_id, worlds, op, ret>>

\* Settings the games are constructed with
SettingsSet == {Settings(3, 1, "per_world", "past_only")}

\* Game.__init__ (engine.py 69-75)
Init ==
    /\ settings \in SettingsSet
    /\ turn = BLACK
    /\ message = MsgInitial
    /\ _next_id = 1 + 54
    /\ worlds = [w \in {0} |-> WorldLine(0, <<_initial_snapshot(1)>>)]
    /\ op = "init"
    /\ ret = "None"

\* Game.present (engine.py 92-93)
present(w) == worlds[w].history[Len(worlds[w].history)]

\* sorted(self.worlds.keys())
RECURSIVE SortedKeys(_)
SortedKeys(S) ==
    IF S = {} THEN <<>>
    ELSE LET m == CHOOSE a \in S : \A b \in S : a <= b
         IN  <<m>> \o SortedKeys(S \ {m})

(***************************************************************************)
(* Game.stage and Game.clear_staged (engine.py 95-101).                    *)
(***************************************************************************)
stageEveryWorld(w, plan) ==
    /\ worlds' = [v \in DOMAIN worlds |-> [worlds[v] EXCEPT !.staged = plan]]
    /\ op' = "stage"
    /\ ret' = "None"
    /\ UNCHANGED <<settings, turn, message, _next_id>>

stage(w, plan) ==
    /\ worlds' = IF w \in DOMAIN worlds THEN [worlds EXCEPT ![w].staged = plan] ELSE worlds
    /\ op' = "stage"
    /\ ret' = "None"
    /\ UNCHANGED <<settings, turn, message, _next_id>>

clear_staged ==
    /\ worlds' = [w \in DOMAIN worlds |-> [worlds[w] EXCEPT !.staged = NoPlan]]
    /\ op' = "clear_staged"
    /\ ret' = "None"
    /\ UNCHANGED <<settings, turn, message, _next_id>>

(***************************************************************************)
(* Game.commit_turn (engine.py 103-137).                                   *)
(***************************************************************************)
RECURSIVE ApplyLoop(_, _, _, _)
\* the for loop of lines 111-115 from the i-th staged entry on; it stops at
\* the first world whose plan is refused
ApplyLoop(ws, staged, i, global_use) ==
    IF i > Len(staged) THEN ApplyResult(TRUE, "", ws, global_use)
    ELSE LET Continue(r) == IF ~r.ok THEN r
                            ELSE ApplyLoop(r.worlds, staged, i + 1, r.global_use)
         IN  Continue(_apply_one_world(ws, staged[i][1], staged[i][2], global_use,
                                       turn, settings))

\* lines 118-122: per kind, the pieces carrying it in the hands of self.turn
GlobalTotal(ws) ==
    [c \in PieceTypeSet |->
        LET CountIn(h) == Cardinality({j \in 1..Len(h) : c \in h[j].candidates})
            RECURSIVE Sum(_)
            Sum(S) == IF S = {} THEN 0
                      ELSE LET w == CHOOSE v \in S : TRUE
                           IN  CountIn(ws[w].history[Len(ws[w].history)].hands[turn])
                               + Sum(S \ {w})
        IN  Sum(DOMAIN ws)]

\* line 105: some world has no staged plan
MissingStagedFirstOnly(ws) ==
    ws[CHOOSE a \in DOMAIN ws : \A b \in DOMAIN ws : a <= b].staged = NoPlan

MissingStaged(ws) == \E w \in DOMAIN ws : ws[w].staged = NoPlan

\* lines 128-133 for one world line
SettleLostBoth(wl) ==
    LET Settled(s) ==
            [wl EXCEPT !.staged = NoPlan,
                       !.history[Len(wl.history)] = s,
                       !.lost = (Cardinality(king_candidates(s, BLACK)) = 0
                                 /\ Cardinality(king_candidates(s, WHITE)) = 0)]
    IN  Settled(_collapse_by_count(wl.history[Len(wl.history)]))

Settle(wl) ==
    LET Settled(s) ==
            [wl EXCEPT !.staged = NoPlan,
                       !.history[Len(wl.history)] = s,
                       !.lost = (Cardinality(king_candidates(s, BLACK)) = 0
                                 \/ Cardinality(king_candidates(s, WHITE)) = 0)]
    IN  Settled(_collapse_by_count(wl.history[Len(wl.history)]))

commit_turn(max_history) ==
    LET world_ids == SortedKeys(DOMAIN worlds)
        staged == [i \in 1..Len(world_ids) |-> <<world_ids[i], worlds[world_ids[i]].staged>>]
        zero == [c \in PieceTypeSet |-> 0]
        Short(r, total) ==
            IF settings.hand_mode = "global"
            THEN {k \in PieceTypeSet : r.global_use[k] > total[k]}
            ELSE {}
        Outcome(r, short) ==
           IF MissingStaged(worlds)
           THEN /\ message' = MsgMissing
                /\ ret' = "False"
                /\ UNCHANGED <<worlds, turn>>
           ELSE IF ~r.ok
           THEN /\ message' = MsgIllegal(r.err)
                /\ ret' = "False"
                /\ worlds' = r.worlds
                /\ UNCHANGED turn
           ELSE IF short # {}
           THEN \* the first short kind in the order of global_use, which is
                \* the iteration order of sets of str: any of the short kinds
                /\ \E k \in short : message' = MsgGlobalShort(k)
                /\ ret' = "False"
                /\ worlds' = r.worlds
                /\ UNCHANGED turn
           ELSE /\ worlds' = [w \in DOMAIN r.worlds |-> Settle(r.worlds[w])]
                /\ turn' = opposite(turn)
                /\ message' = MsgCommitted
                /\ ret' = "True"
        Applied(r) == Outcome(r, Short(r, GlobalTotal(r.worlds)))
    IN  /\ \A w \in DOMAIN worlds : Len(worlds[w].history) < max_history
        /\ op' = "commit_turn"
        /\ UNCHANGED <<settings, _next_id>>
        /\ Applied(ApplyLoop(worlds, staged, 1, zero))

(***************************************************************************)
(* Plans the caller stages.  From the initial position, for BLACK:         *)
(* a forward step, the same step into a new world, a capture along the     *)
(* file into a new world; for WHITE: a forward step, a step into a new     *)
(* world from the previous snapshot, a two-square advance into a new world.*)
(***************************************************************************)
Plans ==
    {MovePlan("move", <<4, 6>>, <<4, 5>>, 0, FALSE, 0, 0),
     MovePlan("move", <<4, 6>>, <<4, 5>>, 0, TRUE, 1, 0),
     MovePlan("move", <<4, 6>>, <<4, 2>>, 0, FALSE, 4, 0),
     MovePlan("move", <<4, 2>>, <<4, 3>>, 0, FALSE, 0, 0),
     MovePlan("move", <<4, 2>>, <<4, 3>>, 0, FALSE, 1, -1),
     MovePlan("move", <<4, 2>>, <<4, 4>>, 0, FALSE, 2, 0)}

\* world ids the caller passes to stage: the existing ones and an unknown one
StageWorlds == (DOMAIN worlds) \cup {-1}

Next ==
    \/ \E w \in StageWorlds, plan \in Plans : stage(w, plan)
    \/ clear_staged
    \/ commit_turn(MaxHistory)

Spec == Init /\ [][Next]_vars

(***************************************************************************)
(* A long game.  The caller opens with the step into a new world and then  *)
(* stages in every world the forward step of the mover's foremost piece    *)
(* (the first one in row-major order from the mover's front rank that can  *)
(* step forward).  When world 0 is down to ten pieces of BLACK that carry  *)
(* pawn, BLACK may stage the opening move again in world 1.                *)
(***************************************************************************)
OpeningPlan == MovePlan("move", <<4, 6>>, <<4, 5>>, 0, TRUE, 1, 0)

CanStep(s, pl) ==
    {xy \in Range9 \X Range9 :
        /\ s.board[xy[2]][xy[1]].owner = pl
        /\ xy[2] + forward(pl) \in Range9
        /\ s.board[xy[2] + forward(pl)][xy[1]].owner # pl}

FrontRank(xy, pl) == 9 * (IF pl = BLACK THEN xy[2] ELSE 8 - xy[2]) + xy[1]

Foremost(s, pl) ==
    CHOOSE xy \in CanStep(s, pl) : \A o \in CanStep(s, pl) : FrontRank(xy, pl) <= FrontRank(o, pl)

PawnHolders(s, pl) ==
    Cardinality({xy \in Range9 \X Range9 :
                    s.board[xy[2]][xy[1]].owner = pl /\ "pawn" \in s.board[xy[2]][xy[1]].candidates})

LongGamePlans(w) ==
    IF DOMAIN worlds = {0} THEN {OpeningPlan}
    ELSE (IF CanStep(present(w), turn) = {} THEN {}
          ELSE LET xy == Foremost(present(w), turn)
               IN  {MovePlan("move", xy, <<xy[1], xy[2] + forward(turn)>>, 0, FALSE, 0, 0)})
         \cup (IF w = 1 /\ turn = BLACK /\ PawnHolders(present(0), BLACK) = 10
               THEN {OpeningPlan} ELSE {})

LongGameNext ==
    \/ \E w \in DOMAIN worlds : \E plan \in LongGamePlans(w) : stage(w, plan)
    \/ clear_staged
    \/ commit_turn(LongMaxHistory)

LongGame == Init /\ [][LongGameNext]_vars

(***************************************************************************)
(* Properties.                                                             *)
(***************************************************************************)
Last(h) == h[Len(h)]

IsPrefix(h, g) == Len(h) <= Len(g) /\ \A i \in 1..Len(h) : g[i] = h[i]

CommitFailed == op' = "commit_turn" /\ ret' = "False"

CommitSucceeded == op' = "commit_turn" /\ ret' = "True"

\* the candidates of the piece on (fx, fy) of snapshot s that allow the plan's displacement
Allowed(s, plan) ==
    LET fx == plan.from_xy[1]
        fy == plan.from_xy[2]
        piece == s.board[fy][fx]
    IN  {c \in piece.candidates :
            _type_can_move(c, piece.owner, plan.to_xy[1] - fx, plan.to_xy[2] - fy,
                           plan.delta_w, plan.delta_t, fx, fy, s, settings)}

\* C1 (commit atomicity): a commit_turn that returns False leaves the set of
\* worlds and every world's history as they were before the call.
C1_CommitAtomicity ==
    [][CommitFailed =>
          /\ DOMAIN worlds' = DOMAIN worlds
          /\ \A w \in DOMAIN worlds : worlds'[w].history = worlds[w].history]_vars

\* C2 (non-branching move result): after a successful commit_turn, in every
\* world whose plan was a move with delta_w = 0 and delta_t = 0, the appended
\* snapshot has the origin square empty and on the destination square a
\* piece with the mover's id and owner, promoted as the plan says, whose
\* candidates before the collapse pass are those allowing the displacement.
C2_NonBranchingMove ==
    [][CommitSucceeded =>
          \A w \in DOMAIN worlds :
             LET plan == worlds[w].staged
                 old == Last(worlds[w].history)
                 new == Last(worlds'[w].history)
                 mover == old.board[plan.from_xy[2]][plan.from_xy[1]]
                 arrived == new.board[plan.to_xy[2]][plan.to_xy[1]]
                 expected == [old EXCEPT !.board[plan.from_xy[2]][plan.from_xy[1]] = NoPiece,
                                         !.board[plan.to_xy[2]][plan.to_xy[1]] =
                                             Piece(mover.id, mover.owner, Allowed(old, plan),
                                                   plan.promote)]
                 collapsed == _collapse_by_count(expected)
             IN  (plan.mode = "move" /\ plan.delta_w = 0 /\ plan.delta_t = 0) =>
                    /\ new.board[plan.from_xy[2]][plan.from_xy[1]] = NoPiece
                    /\ arrived.id = mover.id
                    /\ arrived.owner = mover.owner
                    /\ arrived.promoted = plan.promote
                    /\ arrived.candidates =
                          collapsed.board[plan.to_xy[2]][plan.to_xy[1]].candidates]_vars

\* C3 (staging barrier): a commit_turn called while some world has no staged
\* plan returns False and changes nothing but the message.
C3_StagingBarrier ==
    [][(op' = "commit_turn" /\ \E w \in DOMAIN worlds : worlds[w].staged = NoPlan) =>
          /\ ret' = "False"
          /\ worlds' = worlds
          /\ turn' = turn
          /\ settings' = settings
          /\ _next_id' = _next_id]_vars

\* a missing-input refusal with one world staged and another one not
C3_Witness ==
    /\ op = "commit_turn" /\ ret = "False" /\ message = MsgMissing
    /\ \E w \in DOMAIN worlds : worlds[w].staged = NoPlan
    /\ \E w \in DOMAIN worlds : worlds[w].staged \in Plans /\ Len(worlds[w].history) > 1

\* C4 (branching move result): after a successful commit_turn, for every
\* world w whose plan was a move with delta_w # 0 or delta_t < 0, the
\* snapshot appended to w is w's previous present with only the origin
\* emptied, and world w + delta_w is new, with a history of one snapshot:
\* w's snapshot at index present + delta_t with only the destination square
\* holding the mover and, on capture, the captured piece appended to the
\* mover's hand (both before the collapse pass).
C4_BranchingMove ==
    [][CommitSucceeded =>
          \A w \in DOMAIN worlds :
             LET plan == worlds[w].staged
                 h == worlds[w].history
                 fx == plan.from_xy[1]
                 fy == plan.from_xy[2]
                 tx == plan.to_xy[1]
                 ty == plan.to_xy[2]
                 old == Last(h)
                 base == h[Len(h) + plan.delta_t]
                 mover == old.board[fy][fx]
                 dst == base.board[ty][tx]
                 left == [old EXCEPT !.board[fy][fx] = NoPiece]
                 arrival == [base EXCEPT
                               !.board[ty][tx] = Piece(mover.id, mover.owner,
                                                       Allowed(old, plan), plan.promote),
                               !.hands[turn] =
                                   IF dst = NoPiece THEN @
                                   ELSE Append(@, [dst EXCEPT !.candidates = @ \ {"king"}])]
                 w_new == w + plan.delta_w
             IN  (plan.mode = "move" /\ (plan.delta_w # 0 \/ plan.delta_t < 0)) =>
                    /\ Len(worlds'[w].history) = Len(h) + 1
                    /\ Last(worlds'[w].history) = _collapse_by_count(left)
                    /\ left.board[ty][tx] = old.board[ty][tx]
                    /\ w_new \notin DOMAIN worlds
                    /\ w_new \in DOMAIN worlds'
                    /\ worlds'[w_new].history = <<_collapse_by_count(arrival)>>]_vars

\* world 1 was forked by WHITE from the first snapshot of world 0: it still
\* has the black piece that world 0 lost in the first turn
C4_Witness ==
    /\ op = "commit_turn" /\ ret = "True" /\ turn = BLACK
    /\ DOMAIN worlds = {0, 1}
    /\ Len(worlds[0].history) = 3 /\ Len(worlds[1].history) = 1
    /\ worlds[1].history[1].board[3][4].owner = WHITE
    /\ worlds[1].history[1].board[2][4].owner = WHITE
    /\ worlds[1].history[1].board[6][4].owner = BLACK
    /\ worlds[0].history[2].board[6][4] = NoPiece
    /\ worlds[0].history[3].board[2][4] = NoPiece
    /\ worlds[0].history[3].board[3][4] = NoPiece

\* C5 (turn alternation): the active player changes only in a commit_turn
\* that returns True; such a call changes it, to the other player, and
\* leaves every world without a staged plan.
C5_TurnAlternation ==
    [][/\ (turn' # turn => CommitSucceeded)
       /\ (CommitSucceeded =>
              /\ turn' # turn
              /\ turn' \in Player
              /\ \A w \in DOMAIN worlds' : worlds'[w].staged = NoPlan)
       /\ ((op' \in {"stage", "clear_staged"} \/ CommitFailed) => turn' = turn)]_vars

\* the second player is to move after a commit that created a world
C5_Witness ==
    /\ op = "commit_turn" /\ ret = "True" /\ turn = WHITE
    /\ Cardinality(DOMAIN worlds) = 2
    /\ \A w \in DOMAIN worlds : worlds[w].staged = NoPlan

(***************************************************************************)
(* Games with room for three or four worlds, in which several worlds       *)
(* branch in one commit.  BLACK steps forward on file 3, steps from (4,6) into the next  *)
(* world, or goes three squares and three worlds on; WHITE steps forward   *)
(* on file 3, goes from (4,2) two squares and two worlds on, or one square *)
(* and one world on: from worlds 0 and 1 the last two aim at world 2.  The *)
(* caller stages plans for the pieces of the player to move.               *)
(***************************************************************************)
CrowdMaxHistory == 3

CrowdSettings ==
    {Settings(3, 1, "per_world", "past_only"), Settings(4, 1, "per_world", "past_only")}

CrowdInit ==
    /\ settings \in CrowdSettings
    /\ turn = BLACK
    /\ message = MsgInitial
    /\ _next_id = 1 + 54
    /\ worlds = [w \in {0} |-> WorldLine(0, <<_initial_snapshot(1)>>)]
    /\ op = "init"
    /\ ret = "None"

CrowdPlans(pl) ==
    IF pl = BLACK
    THEN {MovePlan("move", <<3, 6>>, <<3, 5>>, 0, FALSE, 0, 0),
          MovePlan("move", <<4, 6>>, <<4, 5>>, 0, FALSE, 1, 0),
          MovePlan("move", <<4, 6>>, <<4, 3>>, 0, FALSE, 3, 0)}
    ELSE {MovePlan("move", <<3, 2>>, <<3, 3>>, 0, FALSE, 0, 0),
          MovePlan("move", <<4, 2>>, <<4, 4>>, 0, FALSE, 2, 0),
          MovePlan("move", <<4, 2>>, <<4, 3>>, 0, FALSE, 1, 0)}

CrowdNext ==
    \/ \E w \in DOMAIN worlds, plan \in CrowdPlans(turn) : stage(w, plan)
    \/ clear_staged
    \/ commit_turn(CrowdMaxHistory)

Crowd == CrowdInit /\ [][CrowdNext]_vars

\* the worlds that got a snapshot in this step and whose staged plan branches
\* to world id n
Makers(n) ==
    {w \in DOMAIN worlds :
        /\ w \in DOMAIN worlds'
        /\ Len(worlds'[w].history) = Len(worlds[w].history) + 1
        /\ IsBranching(worlds[w].staged)
        /\ w + worlds[w].staged.delta_w = n}

\* C6 (world bound): the number of worlds never exceeds max_worlds, and no
\* call removes or replaces a world: every world stays, with its history
\* continued; every world a step adds has one snapshot and was made by
\* exactly one world's branching plan, in a commit_turn, whether that
\* commit succeeds or fails afterwards; and every world whose branching
\* plan was applied aimed at an id that was no world before and is one now.
C6_WorldBound ==
    /\ [](Cardinality(DOMAIN worlds) <= settings.max_worlds)
    /\ [][/\ \A w \in DOMAIN worlds :
                /\ w \in DOMAIN worlds'
                /\ worlds'[w].w = worlds[w].w
                /\ Len(worlds'[w].history) >= Len(worlds[w].history)
                /\ worlds'[w].history[1] = worlds[w].history[1]
          /\ \A n \in DOMAIN worlds' \ DOMAIN worlds :
                /\ op' = "commit_turn"
                /\ worlds'[n].w = n
                /\ Len(worlds'[n].history) = 1
                /\ Cardinality(Makers(n)) = 1
          /\ \A w \in DOMAIN worlds :
                (/\ op' = "commit_turn"
                 /\ Len(worlds'[w].history) = Len(worlds[w].history) + 1
                 /\ IsBranching(worlds[w].staged)) =>
                     /\ w + worlds[w].staged.delta_w \notin DOMAIN worlds
                     /\ w + worlds[w].staged.delta_w \in DOMAIN worlds']_vars

\* worlds 0 and 1 staged branching moves that both aim at world 2, with
\* room for four worlds: world 0 made world 2, whose snapshot holds the
\* piece that came from world 0 on (4,4), and world 1 was refused because
\* world 2 was there, and got no snapshot
C6_Witness ==
    /\ op = "commit_turn" /\ ret = "False" /\ message = MsgIllegal(ErrWorldCollision)
    /\ DOMAIN worlds = {0, 1, 2}
    /\ Cardinality(DOMAIN worlds) < settings.max_worlds
    /\ worlds[2].staged = NoPlan /\ Len(worlds[2].history) = 1
    /\ worlds[0].staged.delta_w = 2 /\ worlds[1].staged.delta_w = 1
    /\ Len(worlds[0].history) = 3 /\ Len(worlds[1].history) = 1
    /\ worlds[2].history[1].board[4][4] # NoPiece
    /\ worlds[2].history[1].board[3][4] = NoPiece

\* C7 (append-only history): every call keeps each world's previous history
\* as a prefix of its history; stage and clear_staged leave the histories
\* alone; a successful commit_turn adds exactly one entry to every world
\* that existed before the call.
C7_AppendOnly ==
    [][\A w \in DOMAIN worlds :
          /\ w \in DOMAIN worlds'
          /\ IsPrefix(worlds[w].history, worlds'[w].history)
          /\ (op' \in {"stage", "clear_staged"} => worlds'[w].history = worlds[w].history)
          /\ (CommitSucceeded => Len(worlds'[w].history) = Len(worlds[w].history) + 1)]_vars

\* a second successful commit, with two worlds
C7_Witness ==
    /\ op = "commit_turn" /\ ret = "True"
    /\ DOMAIN worlds = {0, 1}
    /\ Len(worlds[0].history) = 3 /\ Len(worlds[1].history) = 2

\* the places of the pieces of the present snapshots
Places ==
    {<<w, "board", x, y>> : w \in DOMAIN worlds, x \in Range9, y \in Range9}
    \cup UNION {{<<w, pl, i, 0>> : i \in 1..Len(present(w).hands[pl])} :
                    w \in DOMAIN worlds, pl \in Player}

PieceAt(place) ==
    LET s == present(place[1])
    IN  IF place[2] = "board" THEN s.board[place[4]][place[3]]
        ELSE s.hands[place[2]][place[3]]

\* C8 (identity): no two pieces of the present snapshots of all worlds, on
\* the boards and in the hands, carry the same id.
C8_Identity ==
    \A a, b \in Places :
        (a # b /\ PieceAt(a) # NoPiece /\ PieceAt(b) # NoPiece) => PieceAt(a).id # PieceAt(b).id

\* pieces of owner pl carrying kind: on the board and in pl's hand of s
Holders(s, pl, kind) ==
    Cardinality({xy \in Range9 \X Range9 :
                    s.board[xy[2]][xy[1]].owner = pl /\ kind \in s.board[xy[2]][xy[1]].candidates})
    + Cardinality({i \in 1..Len(s.hands[pl]) : kind \in s.hands[pl][i].candidates})

RECURSIVE HoldersInWorlds(_, _, _)
HoldersInWorlds(S, pl, kind) ==
    IF S = {} THEN 0
    ELSE LET w == CHOOSE v \in S : TRUE
         IN  Holders(present(w), pl, kind) + HoldersInWorlds(S \ {w}, pl, kind)

HoldersInAllWorlds(pl, kind) == HoldersInWorlds(DOMAIN worlds, pl, kind)

\* C9 (limit invariant): after a successful commit_turn, for every owner and
\* type, at most limit(type) pieces carry the type.
C9_LimitInvariant ==
    (op = "commit_turn" /\ ret = "True") =>
        \A pl \in Player, kind \in PieceTypeSet : HoldersInAllWorlds(pl, kind) <= PIECE_LIMIT[kind]

\* C10 (collapse invariant): after a successful commit_turn, for every owner
\* and type, if exactly limit(type) pieces carry the type, each of them
\* carries nothing else.
C10_CollapseInvariant ==
    (op = "commit_turn" /\ ret = "True") =>
        \A pl \in Player, kind \in PieceTypeSet :
            HoldersInAllWorlds(pl, kind) = PIECE_LIMIT[kind] =>
                \A w \in DOMAIN worlds :
                    /\ \A x, y \in Range9 :
                           LET p == present(w).board[y][x]
                           IN  (p.owner = pl /\ kind \in p.candidates) => p.candidates = {kind}
                    /\ \A i \in 1..Len(present(w).hands[pl]) :
                           LET p == present(w).hands[pl][i]
                           IN  kind \in p.candidates => p.candidates = {kind}

\* the part of a world line that staging must leave alone
Kept(wl) == <<wl.w, wl.history, wl.lost>>

\* C13 (staging frame): stage(w, plan) changes only the staged slot of world
\* w, which then holds plan, and changes nothing when w is not a world;
\* clear_staged empties every staged slot; neither changes a history, the
\* set of worlds, a lost flag or the player to move.
C13_StagingFrame ==
    [][/\ \A w \in StageWorlds, plan \in Plans :
            stage(w, plan) =>
                /\ w \notin DOMAIN worlds =>
                      UNCHANGED <<settings, turn, message, _next_id, worlds>>
                /\ turn' = turn
                /\ DOMAIN worlds' = DOMAIN worlds
                /\ \A v \in DOMAIN worlds :
                      /\ Kept(worlds'[v]) = Kept(worlds[v])
                      /\ worlds'[v].staged = IF v = w THEN plan ELSE worlds[v].staged
       /\ op' = "clear_staged" =>
                /\ turn' = turn
                /\ DOMAIN worlds' = DOMAIN worlds
                /\ \A v \in DOMAIN worlds :
                      /\ Kept(worlds'[v]) = Kept(worlds[v])
                      /\ worlds'[v].staged = NoPlan]_vars

\* a plan was staged in one of two worlds while the other has none
C13_Witness ==
    /\ op = "stage"
    /\ \E w, v \in DOMAIN worlds :
          /\ worlds[w].staged # NoPlan
          /\ worlds[v].staged = NoPlan
          /\ Len(worlds[w].history) > 1

\* the types of a piece of owner on (fx, fy) of snapshot s that allow the
\* step to the next rank, -1 for BLACK and +1 for WHITE, in the same world
\* and time
ForwardStepTypes(s, owner, fx, fy) ==
    {t \in PieceTypeSet :
        _type_can_move(t, owner, 0, IF owner = BLACK THEN -1 ELSE 1, 0, 0, fx, fy, s, settings)}

\* the pieces of a snapshot that carry all eight types and have a next rank
FullPieces(s) ==
    {xy \in Range9 \X Range9 :
        /\ s.board[xy[2]][xy[1]].candidates = PieceTypeSet
        /\ xy[2] + (IF s.board[xy[2]][xy[1]].owner = BLACK THEN -1 ELSE 1) \in Range9}

\* the piece _execute puts on the destination of the forward step from xy
\* in the present of world w, NoPiece when the step is refused
ForwardStepMoved(w, xy) ==
    LET to == <<xy[1], xy[2] + (IF turn = BLACK THEN -1 ELSE 1)>>
        r == _execute(_clone_snapshot(present(w)), _clone_snapshot(present(w)),
                      MovePlan("move", xy, to, 0, FALSE, 0, 0), FALSE,
                      [c \in PieceTypeSet |-> 0], turn, settings)
    IN  IF r.ok THEN r.target.board[to[2]][to[1]] ELSE NoPiece

\* C14 as stated (forward-step narrowing): for a piece that carries all 8
\* types, the types that allow the one-square forward step are exactly
\* pawn, gold, silver and king.
C14_ForwardStepNarrowing ==
    \A w \in DOMAIN worlds : \A xy \in FullPieces(present(w)) :
        ForwardStepTypes(present(w), present(w).board[xy[2]][xy[1]].owner, xy[1], xy[2])
            = {"pawn", "gold", "silver", "king"}

ForwardSix == {"pawn", "lance", "silver", "gold", "rook", "king"}

\* C14 amended: for a piece that carries all 8 types, the types that allow
\* the one-square forward step are exactly pawn, lance, silver, gold, rook
\* and king, and the piece _execute places on the destination carries
\* exactly these six.
C14_ForwardStepSix ==
    \A w \in DOMAIN worlds : \A xy \in FullPieces(present(w)) :
        LET p == present(w).board[xy[2]][xy[1]]
        IN  /\ ForwardStepTypes(present(w), p.owner, xy[1], xy[2]) = ForwardSix
            /\ (p.owner = turn /\ ForwardStepMoved(w, xy) # NoPiece) =>
                  /\ ForwardStepMoved(w, xy).candidates = ForwardSix
                  /\ ForwardStepMoved(w, xy).id = p.id

\* WHITE is to move in a world where the forward step of a piece with all
\* 8 types is accepted, after BLACK's forward step was committed
C14_Witness ==
    /\ turn = WHITE
    /\ \E w \in DOMAIN worlds :
          /\ Len(worlds[w].history) > 1
          /\ \E xy \in FullPieces(present(w)) : ForwardStepMoved(w, xy) # NoPiece

\* the state of a new game: one world with its initial snapshot
NewGame == DOMAIN worlds = {0} /\ Len(worlds[0].history) = 1

\* C15 as stated (initial king candidates): in a new game king_candidates
\* returns exactly 9 squares for each player.
C15_InitialKingCandidates ==
    NewGame => \A pl \in Player : Cardinality(king_candidates(present(0), pl)) = 9

\* C15 amended: in a new game king_candidates returns exactly 27 squares
\* for each player, the squares of the player's three rows (0-2 for WHITE,
\* 6-8 for BLACK).
C15_InitialKingCandidates27 ==
    NewGame =>
        /\ king_candidates(present(0), WHITE) = {xy \in Range9 \X Range9 : xy[2] <= 2}
        /\ king_candidates(present(0), BLACK) = {xy \in Range9 \X Range9 : xy[2] >= 6}
        /\ \A pl \in Player : Cardinality(king_candidates(present(0), pl)) = 27

\* the freshly constructed game
C15_Witness == op = "init" /\ NewGame /\ king_candidates(present(0), BLACK) # {}

\* player pl has no piece on the board of s that carries king
Kingless(s, pl) ==
    \A x \in Range9, y \in Range9 :
        ~(s.board[y][x].owner = pl /\ "king" \in s.board[y][x].candidates)

\* C11 (loss detection): after every successful commit_turn every world is
\* marked lost exactly when, on its present board, one of the two players
\* has no piece that carries king.
C11_LossDetection ==
    (op = "commit_turn" /\ ret = "True") =>
        \A w \in DOMAIN worlds :
            worlds[w].lost <=> (Kingless(present(w), BLACK) \/ Kingless(present(w), WHITE))

\* a successful commit after which one world is lost, with one player
\* still holding a king candidate there, and another world is not
C11_Witness ==
    /\ op = "commit_turn" /\ ret = "True"
    /\ \E w, v \in DOMAIN worlds :
          /\ worlds[w].lost /\ ~worlds[v].lost
          /\ Kingless(present(w), BLACK) /\ ~Kingless(present(w), WHITE)

(***************************************************************************)
(* Games with moves along the time axis.  The caller stages, for BLACK   *)
(* and for WHITE, the forward step of the piece on file 3 in the present   *)
(* and one snapshot ahead, the forward step of the piece on file 4 into    *)
(* the next world one snapshot back, and its two-square advance into the   *)
(* second next world two snapshots back.  The game is constructed with a   *)
(* time jump of 1 under past_only or of 2 under a policy that allows the   *)
(* future.                                                                 *)
(***************************************************************************)
\* commits of these games stop when a history has this many snapshots
TimeMaxHistory == 4

TimeSettings ==
    {Settings(3, 1, "per_world", "past_only"), Settings(3, 2, "per_world", "free")}

TimeInit ==
    /\ settings \in TimeSettings
    /\ turn = BLACK
    /\ message = MsgInitial
    /\ _next_id = 1 + 54
    /\ worlds = [w \in {0} |-> WorldLine(0, <<_initial_snapshot(1)>>)]
    /\ op = "init"
    /\ ret = "None"

TimePlans ==
    {MovePlan("move", <<3, 6>>, <<3, 5>>, 0, FALSE, 0, 0),
     MovePlan("move", <<3, 6>>, <<3, 5>>, 0, FALSE, 0, 1),
     MovePlan("move", <<4, 6>>, <<4, 5>>, 0, FALSE, 1, -1),
     MovePlan("move", <<4, 6>>, <<4, 4>>, 0, FALSE, 2, -2),
     MovePlan("move", <<3, 2>>, <<3, 3>>, 0, FALSE, 0, 0),
     MovePlan("move", <<3, 2>>, <<3, 3>>, 0, FALSE, 0, 1),
     MovePlan("move", <<4, 2>>, <<4, 3>>, 0, FALSE, 1, -1),
     MovePlan("move", <<4, 2>>, <<4, 4>>, 0, FALSE, 2, -2)}

TimeNext ==
    \/ \E w \in DOMAIN worlds, plan \in TimePlans : stage(w, plan)
    \/ clear_staged
    \/ commit_turn(TimeMaxHistory)

TimeGame == TimeInit /\ [][TimeNext]_vars

\* the plan staged in world line wl breaks one of the three time bounds
OutOfTime(wl) ==
    \/ settings.time_direction_policy = "past_only" /\ wl.staged.delta_t > 0
    \/ wl.staged.delta_t > settings.max_time_jump
    \/ wl.staged.delta_t < -settings.max_time_jump
    \/ Len(wl.history) + wl.staged.delta_t < 1
    \/ Len(wl.history) + wl.staged.delta_t > Len(wl.history)

\* C20 (time bounds): a commit with a staged plan that has delta_t > 0
\* under past_only, |delta_t| > max_time_jump, or a base index outside the
\* world's history is rejected and appends no snapshot to that world; every
\* world that gets a snapshot had a plan with -max_time_jump <= delta_t <= 0
\* whose base index is in its history.
C20_TimeBounds ==
    [][op' = "commit_turn" =>
         \A w \in DOMAIN worlds :
            /\ (worlds[w].staged # NoPlan /\ OutOfTime(worlds[w])) =>
                  /\ ret' = "False"
                  /\ worlds'[w].history = worlds[w].history
            /\ worlds'[w].history # worlds[w].history =>
                  /\ worlds[w].staged.delta_t <= 0
                  /\ worlds[w].staged.delta_t >= -settings.max_time_jump
                  /\ Len(worlds[w].history) + worlds[w].staged.delta_t
                        \in 1..Len(worlds[w].history)]_vars

\* a commit refused for a jump of two snapshots back, staged in a world
\* whose history has the two snapshots
C20_Witness ==
    /\ op = "commit_turn" /\ ret = "False"
    /\ message = MsgIllegal(ErrTimeJump)
    /\ \E w \in DOMAIN worlds :
          /\ worlds[w].staged.delta_t = -2
          /\ Len(worlds[w].history) >= 3

(***************************************************************************)
(* Games with captures and drops, constructed with the global hand mode.   *)
(* In the short game BLACK opens with the advance of the piece on (4,6)    *)
(* along the file onto the piece on (4,2) in a new world four worlds up;   *)
(* the other plans are the forward steps on file 3 and the drop of the     *)
(* first hand piece on (4,4).  The long game below also has the forward    *)
(* step with promotion into the world below as an opening, the advance of  *)
(* WHITE's piece on (4,2) onto (4,5) in a new world three worlds up, and   *)
(* the step of BLACK's piece on (4,6) to (3,6).                            *)
(***************************************************************************)
SkirmishMaxHistory == 4

CaptureOpening == MovePlan("move", <<4, 6>>, <<4, 2>>, 0, FALSE, 4, 0)

StepOpening == MovePlan("move", <<4, 6>>, <<4, 5>>, 0, TRUE, -1, 0)

DropPlan == MovePlan("drop", <<0, 0>>, <<4, 4>>, 0, FALSE, 0, 0)

KingCapture == MovePlan("move", <<4, 2>>, <<4, 5>>, 0, FALSE, 3, 0)

SideStep == MovePlan("move", <<4, 6>>, <<3, 6>>, 0, FALSE, 0, 0)

GlobalInit ==
    /\ settings = Settings(3, 1, "global", "past_only")
    /\ turn = BLACK
    /\ message = MsgInitial
    /\ _next_id = 1 + 54
    /\ worlds = [w \in {0} |-> WorldLine(0, <<_initial_snapshot(1)>>)]
    /\ op = "init"
    /\ ret = "None"

SkirmishPlans ==
    {CaptureOpening, DropPlan,
     MovePlan("move", <<3, 6>>, <<3, 5>>, 0, FALSE, 0, 0),
     MovePlan("move", <<3, 2>>, <<3, 3>>, 0, FALSE, 0, 0)}

SkirmishNext ==
    \/ \E w \in DOMAIN worlds, plan \in SkirmishPlans : stage(w, plan)
    \/ clear_staged
    \/ commit_turn(SkirmishMaxHistory)

Skirmish == GlobalInit /\ [][SkirmishNext]_vars

(***************************************************************************)
(* The long game with captures and drops.  After one of the two openings   *)
(* the mover stages in every world the forward step of its foremost piece  *)
(* off file 4, except that BLACK's piece on (4,6), when it stands behind a *)
(* piece of BLACK and (3,6) is empty, steps aside to (3,6).  The mover may *)
(* drop its first hand piece on (4,4) once that piece carries only pawn;   *)
(* WHITE may capture on (4,5) in a world that has only its first snapshot  *)
(* or once the piece of BLACK there carries only king; BLACK may stage the *)
(* step opening again in world 0 when it has 11 pieces that carry pawn on  *)
(* the board of world -1.                                                  *)
(***************************************************************************)
CanStepOff4(s, pl) == {xy \in CanStep(s, pl) : xy[1] # 4}

ForemostOff4(s, pl) ==
    CHOOSE xy \in CanStepOff4(s, pl) :
        \A o \in CanStepOff4(s, pl) : FrontRank(xy, pl) <= FrontRank(o, pl)

StepPlans(s) ==
    IF /\ turn = BLACK
       /\ s.board[6][4].owner = BLACK
       /\ s.board[5][4].owner = BLACK
       /\ s.board[6][3] = NoPiece
    THEN {SideStep}
    ELSE IF CanStepOff4(s, turn) = {} THEN {}
    ELSE LET xy == ForemostOff4(s, turn)
         IN  {MovePlan("move", xy, <<xy[1], xy[2] + forward(turn)>>, 0, FALSE, 0, 0)}

EndgamePlans(w) ==
    IF DOMAIN worlds = {0} THEN {CaptureOpening, StepOpening}
    ELSE StepPlans(present(w))
         \cup (IF /\ Len(present(w).hands[turn]) > 0
                  /\ present(w).hands[turn][1].candidates = {"pawn"}
               THEN {DropPlan} ELSE {})
         \cup (IF /\ turn = WHITE
                  /\ present(w).board[5][4].owner = BLACK
                  /\ \/ present(w).board[5][4].candidates = {"king"}
                     \/ Len(worlds[w].history) = 1
               THEN {KingCapture} ELSE {})
         \cup (IF /\ turn = BLACK /\ w = 0 /\ -1 \in DOMAIN worlds
                  /\ PawnHolders(present(-1), BLACK) = 11
               THEN {StepOpening} ELSE {})

EndgameNext ==
    \/ \E w \in DOMAIN worlds : \E plan \in EndgamePlans(w) : stage(w, plan)
    \/ clear_staged
    \/ commit_turn(LongMaxHistory)

Endgame == GlobalInit /\ [][EndgameNext]_vars

\* the candidates of the piece that the plan staged in world line wl drops,
\* as it lands; empty when the plan is no drop of a hand piece
DroppedCandidates(wl) ==
    LET hand == Last(wl.history).hands[turn]
    IN  IF wl.staged.mode = "drop" /\ wl.staged.hand_index \in 0..(Len(hand) - 1)
        THEN _filter_drop_candidates(hand[wl.staged.hand_index + 1].candidates,
                                     wl.staged.to_xy[1], wl.staged.to_xy[2],
                                     wl.history[Len(wl.history) + wl.staged.delta_t], turn)
        ELSE {}

DroppedCount(c) == Cardinality({w \in DOMAIN worlds : c \in DroppedCandidates(worlds[w])})

RECURSIVE InHandCount(_, _)
\* the pieces that carry c in the mover's hands of the worlds S, as the hands
\* stand before the commit
InHandCount(S, c) ==
    IF S = {} THEN 0
    ELSE LET w == CHOOSE v \in S : TRUE
             hand == present(w).hands[turn]
         IN  Cardinality({i \in 1..Len(hand) : c \in hand[i].candidates})
             + InHandCount(S \ {w}, c)

\* every world had a plan and got its snapshot in this step
AllResolved ==
    \A w \in DOMAIN worlds :
        /\ worlds[w].staged # NoPlan
        /\ Len(worlds'[w].history) = Len(worlds[w].history) + 1

\* C12 (global hand check): with hand_mode = global, a commit whose plans
\* all resolve is rejected for insufficient global hand exactly when, for
\* some type, more dropped pieces carry it than pieces in the mover's hands
\* of all worlds did when commit_turn was called; a drop of a piece that is
\* in hand is not rejected.
C12_GlobalHandCheck ==
    [][(op' = "commit_turn" /\ settings.hand_mode = "global" /\ AllResolved) =>
          ((ret' = "False" /\ \E k \in PieceTypeSet : message' = MsgGlobalShort(k))
             <=> \E c \in PieceTypeSet : DroppedCount(c) > InHandCount(DOMAIN worlds, c))]_vars

\* the plan staged in world line wl drops, in the world's present, a hand
\* piece of the mover that carries only pawn on an empty square of a file
\* where the mover has a piece that carries only pawn
DoublePawnDrop(wl) ==
    LET s == Last(wl.history)
        hand == s.hands[turn]
        x == wl.staged.to_xy[1]
        y == wl.staged.to_xy[2]
    IN  /\ wl.staged.mode = "drop"
        /\ wl.staged.delta_w = 0 /\ wl.staged.delta_t = 0
        /\ x \in Range9 /\ y \in Range9
        /\ s.board[y][x] = NoPiece
        /\ wl.staged.hand_index \in 0..(Len(hand) - 1)
        /\ hand[wl.staged.hand_index + 1].candidates = {"pawn"}
        /\ \E r \in Range9 : s.board[r][x].owner = turn /\ s.board[r][x].candidates = {"pawn"}

\* C16 (double-pawn drop): a commit in which a world's staged plan is a
\* drop of a hand piece that carries only pawn, on an empty square of a file
\* where the mover already has a piece that carries only pawn, fails and
\* leaves that world's history, hands included, as it was; when every world
\* has a plan and the worlds before it were applied, the outcome is the
\* drop's no-legal-candidate refusal.
C16_DoublePawnDrop ==
    [][op' = "commit_turn" =>
         \A w \in DOMAIN worlds :
            DoublePawnDrop(worlds[w]) =>
               /\ ret' = "False"
               /\ worlds'[w].history = worlds[w].history
               /\ ((\A v \in DOMAIN worlds :
                       /\ worlds[v].staged # NoPlan
                       /\ v < w => Len(worlds'[v].history) = Len(worlds[v].history) + 1)
                     => message' = MsgIllegal(ErrDropForbidden))]_vars

\* the refusal of such a drop, staged in the second world and still staged,
\* after the plan of the first world was applied
C16_Witness ==
    /\ op = "commit_turn" /\ ret = "False"
    /\ message = MsgIllegal(ErrDropForbidden)
    /\ \E w \in DOMAIN worlds : DoublePawnDrop(worlds[w])

\* the plan staged in world line wl is a move into another world or time
Branching(wl) == wl.staged.delta_w # 0 \/ wl.staged.delta_t < 0

\* the snapshot the move staged in world w is played on: the present, or
\* for a branching move the snapshot delta_t back
BaseSnapshot(w) == worlds[w].history[Len(worlds[w].history) + worlds[w].staged.delta_t]

\* the snapshot where the mover of world w's plan arrives in the next state
ArrivalSnapshot(w) ==
    IF Branching(worlds[w])
    THEN worlds'[w + worlds[w].staged.delta_w].history[1]
    ELSE Last(worlds'[w].history)

\* the plan staged in world w was applied in this step and landed on a piece
\* of the opponent
CapturingMove(w) ==
    /\ worlds[w].staged.mode = "move"
    /\ Len(worlds'[w].history) = Len(worlds[w].history) + 1
    /\ BaseSnapshot(w).board[worlds[w].staged.to_xy[2]][worlds[w].staged.to_xy[1]].owner
          = opposite(turn)

\* C17 (capture): when an applied move, branching or not, lands on a piece
\* of the opponent, then in the snapshot where the mover arrives the square
\* holds the mover and the mover's hand has one more piece, which has the
\* victim's id, the victim's candidates without king (or the single type a
\* collapse left) and promoted = FALSE.
C17_Capture ==
    [][op' = "commit_turn" =>
         \A w \in DOMAIN worlds :
            CapturingMove(w) =>
               LET to == worlds[w].staged.to_xy
                   victim == BaseSnapshot(w).board[to[2]][to[1]]
                   before == BaseSnapshot(w).hands[turn]
                   after == ArrivalSnapshot(w).hands[turn]
               IN  /\ ArrivalSnapshot(w).board[to[2]][to[1]].owner = turn
                   /\ Len(after) = Len(before) + 1
                   /\ \A i \in 1..Len(before) : after[i].id = before[i].id
                   /\ Last(after).id = victim.id
                   /\ \/ Last(after).candidates = victim.candidates \ {"king"}
                      \/ /\ ret' = "True"
                         /\ Cardinality(Last(after).candidates) = 1
                   /\ Last(after).promoted = FALSE]_vars

\* no piece of snapshot q has a type that the piece with the same id in the
\* same place of snapshot p does not have
NotGrown(p, q) ==
    /\ \A x \in Range9, y \in Range9 :
          (q.board[y][x] # NoPiece /\ q.board[y][x].id = p.board[y][x].id) =>
              q.board[y][x].candidates \subseteq p.board[y][x].candidates
    /\ \A pl \in Player : \A i \in 1..Len(q.hands[pl]) :
          (i <= Len(p.hands[pl]) /\ q.hands[pl][i].id = p.hands[pl][i].id) =>
              q.hands[pl][i].candidates \subseteq p.hands[pl][i].candidates

\* the worlds as the loop of commit_turn leaves them, before the collapse
BeforeCollapse ==
    LET world_ids == SortedKeys(DOMAIN worlds)
        staged == [i \in 1..Len(world_ids) |-> <<world_ids[i], worlds[world_ids[i]].staged>>]
    IN  ApplyLoop(worlds, staged, 1, [c \in PieceTypeSet |-> 0]).worlds

\* C18 (candidates never grow): in every commit step, a piece that keeps its
\* place in a world's present, or in the snapshot a new world is cloned
\* from, has no type it did not have before; and after a successful commit
\* every piece's candidates are a subset of its candidates before the
\* collapse pass.
C18_CandidatesNeverGrow ==
    [][op' = "commit_turn" =>
         /\ \A w \in DOMAIN worlds : NotGrown(present(w), Last(worlds'[w].history))
         /\ \A w \in DOMAIN worlds :
               (/\ Len(worlds'[w].history) = Len(worlds[w].history) + 1
                /\ Branching(worlds[w])) =>
                     NotGrown(BaseSnapshot(w), ArrivalSnapshot(w))
         /\ ret' = "True" =>
               \A w \in DOMAIN worlds' :
                   NotGrown(Last(BeforeCollapse[w].history), Last(worlds'[w].history))]_vars

\* every piece of snapshot s, on the board or in a hand, carries a type
AllCarry(s) ==
    /\ \A x \in Range9, y \in Range9 :
          s.board[y][x] # NoPiece => s.board[y][x].candidates # {}
    /\ \A pl \in Player : \A i \in 1..Len(s.hands[pl]) : s.hands[pl][i].candidates # {}

\* C19 (candidates never empty): every piece stored in a snapshot of a
\* world's history has a non-empty candidate set.  Every snapshot of a
\* history is the last one of its world in the state that follows the
\* commit that stored it, and only the last one is ever rewritten.
C19_CandidatesNeverEmpty ==
    \A w \in DOMAIN worlds : AllCarry(present(w))

(***************************************************************************)
(* The while loop of _collapse_by_count (engine.py 332-357), pass by pass. *)
(***************************************************************************)
\* a pass can only change something for a (player, kind) pair, so this many
\* passes and one more are enough unless the loop never stops
CollapsePassLimit == Len(CollapseOrder) * Len(PIECE_LIMIT_ORDER) + 1

\* the snapshot after n runs of the while body
RECURSIVE AfterPasses(_, _)
AfterPasses(s, n) == IF n = 0 THEN s ELSE AfterPasses(CollapsePass(s, 0), n - 1)

\* the number of runs of the while body that set changed, counted up to n
RECURSIVE ChangingPasses(_, _)
ChangingPasses(s, n) ==
    IF n = 0 \/ CollapsePass(s, 0) = s THEN 0
    ELSE 1 + ChangingPasses(CollapsePass(s, 0), n - 1)

\* two squares of snapshot s hold pieces with the same id
SameIdTwice(s) ==
    \E a, b \in Range9 \X Range9 :
        /\ a # b
        /\ s.board[a[2]][a[1]] # NoPiece
        /\ s.board[b[2]][b[1]] # NoPiece
        /\ s.board[a[2]][a[1]].id = s.board[b[2]][b[1]].id

\* C21 (collapse termination): in every successful commit_turn, for every
\* world, the passes of the collapse over the snapshot the plans left reach
\* a pass that changes nothing before CollapsePassLimit passes have changed
\* something, and the snapshot the commit stores is the one that pass left.
C21_CollapseTermination ==
    [][CommitSucceeded =>
         \A w \in DOMAIN worlds' :
             LET s == Last(BeforeCollapse[w].history)
                 n == ChangingPasses(s, CollapsePassLimit)
             IN  /\ n < CollapsePassLimit
                 /\ CollapsePass(AfterPasses(s, n), 0) = AfterPasses(s, n)
                 /\ Last(worlds'[w].history) = AfterPasses(s, n)]_vars

\* a committed world whose present holds one id on two squares and a kind
\* that the collapse has forced for one player
C21_Witness ==
    /\ op = "commit_turn" /\ ret = "True"
    /\ \E w \in DOMAIN worlds :
          /\ SameIdTwice(present(w))
          /\ \E pl \in Player, kind \in PieceTypeSet :
                /\ CollapseCount(present(w), pl, kind) = PIECE_LIMIT[kind]
                /\ CollapseIds(present(w), pl, kind) # {}

(***************************************************************************)
(* Games with plans that go back in time inside their own world.  BLACK    *)
(* and WHITE step forward on file 3; BLACK captures along file 4 into      *)
(* world 4 and so gets a piece in hand there; a one-square step from       *)
(* (4,6) or (4,2) one snapshot back with delta_w = 0, the shape the king   *)
(* allows; the pawn's (0,0,0,-1) on (4,6); a drop on (4,4) one snapshot    *)
(* back with delta_w = 0.                                                  *)
(***************************************************************************)
TravelMaxHistory == 4

TravelPlans ==
    {MovePlan("move", <<3, 6>>, <<3, 5>>, 0, FALSE, 0, 0),
     MovePlan("move", <<3, 2>>, <<3, 3>>, 0, FALSE, 0, 0),
     CaptureOpening,
     MovePlan("move", <<4, 6>>, <<4, 5>>, 0, FALSE, 0, -1),
     MovePlan("move", <<4, 2>>, <<4, 3>>, 0, FALSE, 0, -1),
     MovePlan("move", <<4, 6>>, <<4, 6>>, 0, FALSE, 0, -1),
     MovePlan("drop", <<0, 0>>, <<4, 4>>, 0, FALSE, 0, -1)}

TravelNext ==
    \/ \E w \in DOMAIN worlds, plan \in TravelPlans : stage(w, plan)
    \/ clear_staged
    \/ commit_turn(TravelMaxHistory)

Travel == Init /\ [][TravelNext]_vars

\* a plan that stays in its world and goes back in time
PureTimeTravel(plan) == plan # NoPlan /\ plan.delta_w = 0 /\ plan.delta_t < 0

\* C22 (pure time travel never succeeds): a commit_turn in which some world's
\* staged plan, move or drop, has delta_w = 0 and delta_t < 0 returns False,
\* and that world gets no snapshot.
C22_PureTimeTravel ==
    [][op' = "commit_turn" =>
         \A w \in DOMAIN worlds :
             PureTimeTravel(worlds[w].staged) =>
                 /\ ret' = "False"
                 /\ worlds'[w].history = worlds[w].history]_vars

\* a refused commit in which the plan that goes one snapshot back in its own
\* world had a snapshot to go back to and every other world a plain move:
\* the refusal names the world id that exists already
C22_Witness ==
    /\ op = "commit_turn" /\ ret = "False"
    /\ message = MsgIllegal(ErrWorldCollision)
    /\ \E w \in DOMAIN worlds :
          /\ PureTimeTravel(worlds[w].staged)
          /\ Len(worlds[w].history) >= 2
          /\ \A v \in DOMAIN worlds \ {w} :
                /\ worlds[v].staged # NoPlan
                /\ worlds[v].staged.delta_w = 0
                /\ worlds[v].staged.delta_t = 0

(***************************************************************************)
(* Games with move plans whose destination is their origin.  BLACK and     *)
(* WHITE step forward on file 3; BLACK steps from (4,6) to (4,5) into      *)
(* world 1; the pawn's world step (0,0,f,0) on (4,6) for BLACK and on      *)
(* (4,2) for WHITE; a step into the next world one snapshot back, the      *)
(* shape the king allows, on (4,6) and on (4,5), the square the piece that *)
(* opened world 1 stands on.                                               *)
(***************************************************************************)
StillMaxHistory == 4

StillPlans ==
    {MovePlan("move", <<3, 6>>, <<3, 5>>, 0, FALSE, 0, 0),
     MovePlan("move", <<3, 2>>, <<3, 3>>, 0, FALSE, 0, 0),
     MovePlan("move", <<4, 6>>, <<4, 5>>, 0, TRUE, 1, 0),
     MovePlan("move", <<4, 6>>, <<4, 6>>, 0, FALSE, -1, 0),
     MovePlan("move", <<4, 2>>, <<4, 2>>, 0, FALSE, 1, 0),
     MovePlan("move", <<4, 6>>, <<4, 6>>, 0, FALSE, 1, -1),
     MovePlan("move", <<4, 5>>, <<4, 5>>, 0, FALSE, 1, -1)}

StillNext ==
    \/ \E w \in DOMAIN worlds, plan \in StillPlans : stage(w, plan)
    \/ clear_staged
    \/ commit_turn(StillMaxHistory)

Still == Init /\ [][StillNext]_vars

\* a move plan whose destination is its origin
StandStill(plan) == plan # NoPlan /\ plan.mode = "move" /\ plan.to_xy = plan.from_xy

\* C23 (no move keeps its square): a commit_turn in which some world's staged
\* plan is a move with to_xy equal to from_xy, whatever its delta_w and
\* delta_t, returns False, and that world gets no snapshot.
C23_NoMoveKeepsSquare ==
    [][op' = "commit_turn" =>
         \A w \in DOMAIN worlds :
             StandStill(worlds[w].staged) =>
                 /\ ret' = "False"
                 /\ worlds'[w].history = worlds[w].history]_vars

\* a refused commit in which a plan that keeps its square goes to a new
\* world from the snapshot before the present and every other world has a
\* plain move: the refusal names the mover's own piece on the destination
C23_Witness ==
    /\ op = "commit_turn" /\ ret = "False"
    /\ message = MsgIllegal(ErrOwnAtDestination)
    /\ \E w \in DOMAIN worlds :
          /\ StandStill(worlds[w].staged)
          /\ worlds[w].staged.delta_w # 0
          /\ worlds[w].staged.delta_t < 0
          /\ Len(worlds[w].history) >= 2
          /\ \A v \in DOMAIN worlds \ {w} :
                /\ worlds[v].staged # NoPlan
                /\ ~StandStill(worlds[v].staged)

====
